---- MODULE Spec2Model ----
(***************************************************************************)
(* A model of pypi_mmm_tracker.py: the Download Fetcher                    *)
(* (get_daily_downloads), the Range Aggregator (fetch_all_daily_data,      *)
(* fetch_all_cumulative_data), the Growth Calculator (calculate_cagr), the *)
(* Renderer (create_plots), the Persister (save_data) and the              *)
(* Orchestrator (main).                                                    *)
(*                                                                         *)
(* A calendar date is its proleptic Gregorian ordinal, as datetime.date    *)
(* keeps it; the text of a date ('%Y-%m-%d') is the tuple <<y, m, d>> of   *)
(* its three fields.  A DataFrame is a record [cols, rows]: the column     *)
(* names in order and the rows in order.                                   *)
(***************************************************************************)
EXTENDS Integers, Sequences, FiniteSets

VARIABLES
    pc,             \* position of main: start, recent, call_cumulative, cumulative, render,
                    \* persist, done (returned), raised (ended by an exception); idle when not run
    days,           \* args.days
    end_date,       \* the running aggregator's end_date (datetime.now().date())
    start_date,     \* the running aggregator's start_date
    idx,            \* the running aggregator's position in MMM_PACKAGES.items()
    all_data,       \* the running aggregator's list of frames
    df,             \* main's df (the recent-window table), Unset until assigned
    cumulative_df,  \* main's cumulative_df (the full-history table)
    calls,          \* every call of get_daily_downloads so far, with what it returned
    out,            \* everything printed so far
    png,            \* mmm_downloads_analysis.png: Unset, or what savefig wrote
    csv,            \* mmm_download_data.csv: Unset, or the lines to_csv wrote
    error,          \* the exception main ended with, "none" otherwise
    fcall,          \* one call of get_daily_downloads on its own: its arguments
    fret,           \* ... and its result, Unset until it returns
    pcall,          \* one call of create_plots on its own: its arguments
    pret,           \* ... and the figure it saved, Unset until it returns
    gcall,          \* one call of calculate_cagr on its own: its arguments
    gret            \* ... and its result, Unset until it returns

vars == <<pc, days, end_date, start_date, idx, all_data, df, cumulative_df,
          calls, out, png, csv, error, fcall, fret, pcall, pret, gcall, gret>>

mainVars == <<pc, days, end_date, start_date, idx, all_data, df, cumulative_df,
              calls, out, png, csv, error>>

NoValue == "NoValue"

\* A variable not assigned yet, or a file not written yet, is <<>>; once it holds v
\* it is <<v>>.
Unset == <<>>

Holding(v) == <<v>>

IsSet(x) == x # <<>>

(***************************************************************************)
(* datetime.date: ordinals, their fields, and the range a date can hold.   *)
(***************************************************************************)
DATE_MIN_ORDINAL == 1

DATE_MAX_ORDINAL == 3652059

TIMEDELTA_MAX_DAYS == 999999999

IsLeap(y) == y % 4 = 0 /\ (y % 100 # 0 \/ y % 400 = 0)

DaysInMonth(y, m) ==
    IF m = 2 THEN (IF IsLeap(y) THEN 29 ELSE 28)
    ELSE IF m \in {4, 6, 9, 11} THEN 30 ELSE 31

DaysBeforeYear(y) == (y - 1) * 365 + (y - 1) \div 4 - (y - 1) \div 100 + (y - 1) \div 400

\* The days of a common year before the first of each month.
DAYS_BEFORE_MONTH == <<0, 31, 59, 90, 120, 151, 181, 212, 243, 273, 304, 334>>

DaysBeforeMonth(y, m) == DAYS_BEFORE_MONTH[m] + (IF m > 2 /\ IsLeap(y) THEN 1 ELSE 0)

Ymd2Ord(y, m, d) == DaysBeforeYear(y) + DaysBeforeMonth(y, m) + d

Ord2Ymd(n) ==
    LET n0   == n - 1
        n400 == n0 \div 146097
        r400 == n0 % 146097
        n100 == r400 \div 36524
        r100 == r400 % 36524
        n4   == r100 \div 1461
        r4   == r100 % 1461
        n1   == r4 \div 365
        r1   == r4 % 365
        year == n400 * 400 + 1 + n100 * 100 + n4 * 4 + n1
    IN IF n1 = 4 \/ n100 = 4
       THEN <<year - 1, 12, 31>>
       ELSE LET guess == (r1 + 50) \div 32
                month == IF DaysBeforeMonth(year, guess) > r1 THEN guess - 1 ELSE guess
            IN <<year, month, r1 - DaysBeforeMonth(year, month) + 1>>

\* date.strftime('%Y-%m-%d') and str(date): the text of a date.
strftime(d) == Ord2Ymd(d)

\* A text that '%Y-%m-%d' (and pd.to_datetime) can parse.
IsDateText(s) ==
    /\ s[1] \in 1..9999
    /\ s[2] \in 1..12
    /\ s[3] \in 1..DaysInMonth(s[1], s[2])

\* datetime.strptime(s, '%Y-%m-%d').date() of a parseable text.
strptime(s) == Ymd2Ord(s[1], s[2], s[3])

\* date - timedelta(days=n): [exc, val].
DateMinusDays(d, n) ==
    IF n > TIMEDELTA_MAX_DAYS \/ n < -TIMEDELTA_MAX_DAYS
    THEN [exc |-> "OverflowError", val |-> NoValue]
    ELSE IF d - n < DATE_MIN_ORDINAL \/ d - n > DATE_MAX_ORDINAL
         THEN [exc |-> "OverflowError", val |-> NoValue]
         ELSE [exc |-> "none", val |-> d - n]

(***************************************************************************)
(* DataFrames.                                                             *)
(***************************************************************************)
\* pd.DataFrame()
EmptyFrame == [cols |-> <<>>, rows |-> <<>>]

\* DataFrame.empty
IsEmpty(f) == Len(f.cols) = 0 \/ Len(f.rows) = 0

Range(s) == {s[i] : i \in DOMAIN s}

RECURSIVE SumSeq(_)
SumSeq(s) == IF s = <<>> THEN 0 ELSE s[1] + SumSeq(Tail(s))

\* pd.concat(frames, ignore_index=True) of frames with the same columns.
RECURSIVE ConcatRows(_)
ConcatRows(frames) ==
    IF frames = <<>> THEN <<>> ELSE frames[1].rows \o ConcatRows(Tail(frames))

concat(frames) == [cols |-> frames[1].cols, rows |-> ConcatRows(frames)]

(***************************************************************************)
(* MMM_PACKAGES, in insertion order (the order .items() iterates in).      *)
(***************************************************************************)
MMM_PACKAGES == <<
    [display_name |-> "PyMC Marketing",      package_name |-> "pymc-marketing"],
    [display_name |-> "Google Meridian",     package_name |-> "google-meridian"],
    [display_name |-> "Meta Robyn (Python)", package_name |-> "robynpy"],
    [display_name |-> "Uber Orbit",          package_name |-> "orbit-ml"] >>

NPackages == Len(MMM_PACKAGES)

(***************************************************************************)
(* get_daily_downloads.  resp is what pypistats.overall does on this call: *)
(* [kind |-> "raise", exc], [kind |-> "none"] (None), or                   *)
(* [kind |-> "frame", cols, rows] with rows [category, date, downloads],   *)
(* date being a text.                                                      *)
(***************************************************************************)
\* A mutant of the mask: the end date left out of the range.
InRangeEndExclusive(d, start_dt, end_dt) == d >= start_dt /\ d < end_dt

\* The mask of line 46.
InRange(d, start_dt, end_dt) == d >= start_dt /\ d <= end_dt

\* The try block (lines 35-51): [exc, df].
TryBody(package_name, start_text, end_text, resp) ==
    LET Fail(e) == [exc |-> e, df |-> NoValue]
    IN
    IF resp.kind = "raise" THEN Fail(resp.exc)
    ELSE IF resp.kind = "none" \/ Len(resp.cols) = 0 \/ Len(resp.rows) = 0
    THEN [exc |-> "none", df |-> EmptyFrame]
    ELSE IF "category" \notin Range(resp.cols) THEN Fail("KeyError")
    ELSE
    LET data1 == SelectSeq(resp.rows, LAMBDA r : r.category = "without_mirrors")
    IN
    IF "date" \notin Range(resp.cols) THEN Fail("KeyError")
    ELSE IF \E i \in DOMAIN data1 : ~IsDateText(data1[i].date) THEN Fail("ValueError")
    ELSE IF ~IsDateText(start_text) \/ ~IsDateText(end_text) THEN Fail("ValueError")
    ELSE
    LET data2    == [i \in DOMAIN data1 |->
                        [date |-> strptime(data1[i].date), downloads |-> data1[i].downloads]]
        start_dt == strptime(start_text)
        end_dt   == strptime(end_text)
        data3    == SelectSeq(data2, LAMBDA r : InRange(r.date, start_dt, end_dt))
    IN
    IF "downloads" \notin Range(resp.cols) THEN Fail("KeyError")
    ELSE [exc |-> "none",
          df  |-> [cols |-> <<"date", "downloads", "package">>,
                   rows |-> [i \in DOMAIN data3 |->
                                [date |-> data3[i].date, downloads |-> data3[i].downloads,
                                 package |-> package_name]]]]

\* A mutant of the handler: only the errors of the service call are caught.
CaughtNetworkErrorsOnly == {"ConnectionError", "HTTPStatusError"}

\* The classes `except Exception` catches.
CaughtByExceptException == {"KeyError", "ValueError", "ConnectionError", "HTTPStatusError"}

\* The whole function: [raised, df, out].
get_daily_downloads(package_name, start_text, end_text, resp) ==
    LET r        == TryBody(package_name, start_text, end_text, resp)
        fetching == <<"Fetching real daily data for", package_name>>
    IN
    IF r.exc = "none"
    THEN [raised |-> "none", df |-> r.df, out |-> <<fetching>>]
    ELSE IF r.exc \in CaughtByExceptException
    THEN [raised |-> "none", df |-> EmptyFrame,
          out |-> <<fetching, <<"Error fetching data for", package_name, r.exc>>>>]
    ELSE [raised |-> r.exc, df |-> NoValue, out |-> <<fetching>>]

(***************************************************************************)
(* The inputs of a run of main.                                            *)
(***************************************************************************)
\* The largest in-range --days explored (besides the default).
MaxDays == 1

\* How many days before today the service's history of a package reaches.
MaxHist == 2

DEFAULT_DAYS == 30

CUMULATIVE_DAYS == 3650

\* datetime.now().date() when the run starts.
Today == Ymd2Ord(2026, 11, 3)

\* --days: values that take the window's start past the last date, before the first
\* date and beyond what a timedelta holds, and values within the calendar (with a
\* start whose year has four digits).
DaysChoices == {-3000000, 1000000, 1000000000} \cup (-1 .. MaxDays) \cup {DEFAULT_DAYS}

\* The dates the service has rows for: around both windows' ends.
HistDates ==
    <<Today - CUMULATIVE_DAYS - 1, Today - CUMULATIVE_DAYS>>
        \o [i \in 1 .. MaxHist + 2 |-> Today - MaxHist - 1 + i]

ServiceCols == <<"category", "date", "downloads", "percent">>

ServiceRow(cat, d, n) == [category |-> cat, date |-> strftime(d), downloads |-> n]

\* The service's rows of a package (p an index of MMM_PACKAGES): one row per date
\* and category.
RECURSIVE HistoryRows(_, _)
HistoryRows(p, k) ==
    IF k = 0 THEN <<>>
    ELSE HistoryRows(p, k - 1)
            \o << ServiceRow("with_mirrors", HistDates[k], 10 * p + k),
                  ServiceRow("without_mirrors", HistDates[k], p + k) >>

History == [p \in 1 .. NPackages |-> HistoryRows(p, Len(HistDates))]

\* What pypistats.overall can do on one call for package p: fail, return None, or
\* return the package's rows; in the recent window's call for the first package,
\* also the rows with a second without_mirrors row for today.
ResponsePool ==
    [window \in {"recent", "cumulative"}, p \in 1 .. NPackages |->
        { [kind |-> "raise", exc |-> "ConnectionError"],
          [kind |-> "none"],
          [kind |-> "frame", cols |-> ServiceCols, rows |-> History[p]] }
        \cup (IF p = 1 /\ window = "recent"
              THEN { [kind |-> "frame", cols |-> ServiceCols,
                      rows |-> Append(History[p], ServiceRow("without_mirrors", Today, 7))] }
              ELSE {})]

(***************************************************************************)
(* create_plots and save_data.                                             *)
(***************************************************************************)
\* Series.unique(): the distinct values in order of first appearance.
RECURSIVE Unique(_)
Unique(s) ==
    IF s = <<>> THEN <<>>
    ELSE LET u == Unique(SubSeq(s, 1, Len(s) - 1))
         IN IF s[Len(s)] \in Range(u) THEN u ELSE Append(u, s[Len(s)])

DisplayNames(f) == Unique([i \in DOMAIN f.rows |-> f.rows[i].display_name])

\* sort_values('date'): the rows in ascending date order.  The default sort kind is
\* not stable, so rows of equal date may come out in either order: the set of the
\* orders the sort can produce, over the rows at the positions S.
RECURSIVE SortOrders(_, _)
SortOrders(rows, S) ==
    IF S = {} THEN {<<>>}
    ELSE LET first == {i \in S : \A j \in S : rows[i].date <= rows[j].date}
         IN UNION { { <<rows[i]>> \o t : t \in SortOrders(rows, S \ {i}) } : i \in first }

\* A mutant of the sort: the rows left in table order.
unsorted_values(rows) == {rows}

sort_values(rows) == SortOrders(rows, DOMAIN rows)

\* Series.cumsum()
cumsum(s) == [i \in DOMAIN s |-> SumSeq(SubSeq(s, 1, i))]

\* The rows of one display name (df[df['display_name'] == display_name]).
RowsOf(f, name) == SelectSeq(f.rows, LAMBDA r : r.display_name = name)

\* One plotted line, from the sorted rows of a display name: the downloads in the
\* left panel, their running sum in the right panel.
PlotLine(name, sorted, cumulative) ==
    LET downloads == [i \in DOMAIN sorted |-> sorted[i].downloads]
    IN [label |-> name,
        x     |-> [i \in DOMAIN sorted |-> sorted[i].date],
        y     |-> IF cumulative THEN cumsum(downloads) ELSE downloads]

\* The lines a panel can get: one per display name, in order of first appearance.
RECURSIVE PanelLines(_, _, _)
PanelLines(f, names, cumulative) ==
    IF names = <<>> THEN {<<>>}
    ELSE { <<PlotLine(names[1], sorted, cumulative)>> \o rest :
              sorted \in sort_values(RowsOf(f, names[1])),
              rest \in PanelLines(f, Tail(names), cumulative) }

\* create_plots(df, days, cumulative_df): whether it saves a figure (it returns at
\* its guard when a table is empty), and the figures savefig can then write.
create_plots(f, d, cf) ==
    IF IsEmpty(f) \/ IsEmpty(cf) THEN [saved |-> FALSE, figs |-> {}]
    ELSE [saved |-> TRUE,
          figs  |-> { [suptitle |-> "PyPI MMM Libraries Download Statistics",
                       ax1 |-> [title |-> <<"Daily Downloads (Last", d, "Days)">>, lines |-> l1],
                       ax2 |-> [title |-> "Cumulative Downloads (Since Inception)", lines |-> l2]] :
                         l1 \in PanelLines(f, DisplayNames(f), FALSE),
                         l2 \in PanelLines(cf, DisplayNames(cf), TRUE) }]

\* What to_csv writes for one cell: a date as its text, anything else as it is.
Cell(row, col) == IF col = "date" THEN strftime(row[col]) ELSE row[col]

\* A mutant of to_csv: the index column written too (index=False left out).
to_csv_with_index(f) ==
    << <<"">> \o f.cols >>
        \o [i \in DOMAIN f.rows |->
               <<i - 1>> \o [j \in DOMAIN f.cols |-> Cell(f.rows[i], f.cols[j])]]

\* df.to_csv(path, index=False): the header line, then one line per row.
to_csv(f) ==
    <<f.cols>> \o [i \in DOMAIN f.rows |-> [j \in DOMAIN f.cols |-> Cell(f.rows[i], f.cols[j])]]

\* save_data(df): the file after the call, given the file before it.
save_data(f, before) == IF ~IsEmpty(f) THEN Holding(to_csv(f)) ELSE before

(***************************************************************************)
(* main, one action per step.                                              *)
(***************************************************************************)
aloneVars == <<fcall, fret, pcall, pret, gcall, gret>>

\* The first lines of an aggregator (58-62, 76-80): take today's date, compute the
\* window, announce it, start the loop.  back is the number of days to go back.
EnterAggregator(today, back, header, at) ==
    LET s == DateMinusDays(today, back)
    IN IF s.exc # "none"
       THEN /\ pc' = "raised"
            /\ error' = s.exc
            /\ UNCHANGED <<end_date, start_date, idx, all_data, out>>
       ELSE /\ pc' = at
            /\ end_date' = today
            /\ start_date' = s.val
            /\ idx' = 1
            /\ all_data' = <<>>
            /\ out' = out \o << <<header, strftime(s.val), strftime(today)>>, "----" >>
            /\ UNCHANGED error

\* Whether a response holds at most one without_mirrors row per date.
UniqueDates(resp) ==
    resp.kind # "frame" \/
    \A i, j \in DOMAIN resp.rows :
        (/\ resp.rows[i].category = "without_mirrors"
         /\ resp.rows[j].category = "without_mirrors"
         /\ resp.rows[i].date = resp.rows[j].date) => i = j

\* One turn of an aggregator's loop (63-68, 81-86): fetch the package at idx, keep
\* its frame with the display name added when it is not empty, sleep (which changes
\* nothing).
LoopTurn(window, resp) ==
    LET entry == MMM_PACKAGES[idx]
        r     == get_daily_downloads(entry.package_name, strftime(start_date),
                                     strftime(end_date), resp)
        tagged == [cols |-> Append(r.df.cols, "display_name"),
                   rows |-> [i \in DOMAIN r.df.rows |->
                               [date |-> r.df.rows[i].date,
                                downloads |-> r.df.rows[i].downloads,
                                package |-> r.df.rows[i].package,
                                display_name |-> entry.display_name]]]
    IN IF r.raised # "none"
       THEN /\ pc' = "raised"
            /\ error' = r.raised
            /\ out' = out \o r.out
            /\ calls' = Append(calls, [window |-> window, package |-> entry.package_name,
                                       start |-> start_date, end |-> end_date,
                                       resp |-> resp.kind, unique |-> UniqueDates(resp), df |-> Unset])
            /\ UNCHANGED <<idx, all_data>>
       ELSE /\ all_data' = IF ~IsEmpty(r.df) THEN Append(all_data, tagged) ELSE all_data
            /\ out' = out \o r.out
            /\ calls' = Append(calls, [window |-> window, package |-> entry.package_name,
                                       start |-> start_date, end |-> end_date,
                                       resp |-> resp.kind, unique |-> UniqueDates(resp),
                                       df |-> Holding(r.df)])
            /\ idx' = idx + 1
            /\ UNCHANGED <<pc, error>>

\* A mutant of the aggregator's result: the last frame for the concatenation.
LastFrameOnly == IF all_data # <<>> THEN all_data[Len(all_data)] ELSE EmptyFrame

\* The end of an aggregator (69-72, 87-90): the table it returns.
AggregatorResult == IF all_data # <<>> THEN concat(all_data) ELSE EmptyFrame

\* A mutant of main's condition: `or` for `and`.
EitherNonEmpty(f, cf) == ~IsEmpty(f) \/ ~IsEmpty(cf)

\* main's condition (179).
BothNonEmpty(f, cf) == ~IsEmpty(f) /\ ~IsEmpty(cf)

\* main 170-177 and fetch_all_daily_data 58-62.
StartRecent ==
    /\ pc = "start"
    /\ EnterAggregator(Today, days, "Fetching data from", "recent")
    /\ UNCHANGED <<days, df, cumulative_df, calls, png, csv>>
    /\ UNCHANGED aloneVars

\* fetch_all_daily_data 63-68.
FetchRecent ==
    /\ pc = "recent"
    /\ idx <= NPackages
    /\ \E resp \in ResponsePool["recent", idx] : LoopTurn("recent", resp)
    /\ UNCHANGED <<days, end_date, start_date, df, cumulative_df, png, csv>>
    /\ UNCHANGED aloneVars

\* fetch_all_daily_data 69-72 and main 177: df is assigned.
ReturnRecent ==
    /\ pc = "recent"
    /\ idx > NPackages
    /\ df' = Holding(AggregatorResult)
    /\ pc' = "call_cumulative"
    /\ UNCHANGED <<days, end_date, start_date, idx, all_data, cumulative_df,
                   calls, out, png, csv, error>>
    /\ UNCHANGED aloneVars

\* main 178 and fetch_all_cumulative_data 76-80 (the run does not cross midnight).
StartCumulative ==
    /\ pc = "call_cumulative"
    /\ EnterAggregator(Today, CUMULATIVE_DAYS, "Fetching cumulative data from", "cumulative")
    /\ UNCHANGED <<days, df, cumulative_df, calls, png, csv>>
    /\ UNCHANGED aloneVars

\* fetch_all_cumulative_data 81-86.
FetchCumulative ==
    /\ pc = "cumulative"
    /\ idx <= NPackages
    /\ \E resp \in ResponsePool["cumulative", idx] : LoopTurn("cumulative", resp)
    /\ UNCHANGED <<days, end_date, start_date, df, cumulative_df, png, csv>>
    /\ UNCHANGED aloneVars

\* fetch_all_cumulative_data 87-90 and main 178-179, 183-184: cumulative_df is
\* assigned and main takes its branch.
ReturnCumulative ==
    /\ pc = "cumulative"
    /\ idx > NPackages
    /\ cumulative_df' = Holding(AggregatorResult)
    /\ IF BothNonEmpty(df[1], AggregatorResult)
       THEN pc' = "render" /\ out' = out
       ELSE /\ pc' = "done"
            /\ out' = Append(out, "No data retrieved. Please check package names and try again.")
    /\ UNCHANGED <<days, end_date, start_date, idx, all_data, df,
                   calls, png, csv, error>>
    /\ UNCHANGED aloneVars

\* main 180: create_plots(df, args.days, cumulative_df).
Render ==
    /\ pc = "render"
    /\ LET r == create_plots(df[1], days, cumulative_df[1])
       IN IF r.saved
          THEN /\ \E fig \in r.figs : png' = Holding(fig)
               /\ out' = Append(out, "Visualization saved as 'mmm_downloads_analysis.png'")
          ELSE /\ png' = png
               /\ out' = Append(out, "No data available for visualization")
    /\ pc' = "persist"
    /\ UNCHANGED <<days, end_date, start_date, idx, all_data, df, cumulative_df,
                   calls, csv, error>>
    /\ UNCHANGED aloneVars

\* main 181-182: save_data(df), then the closing message.
Persist ==
    /\ pc = "persist"
    /\ csv' = save_data(df[1], csv)
    /\ out' = out \o (IF ~IsEmpty(df[1]) THEN <<"Data saved as 'mmm_download_data.csv'">> ELSE <<>>)
                  \o << <<"Analysis complete for last", days, "days!">> >>
    /\ pc' = "done"
    /\ UNCHANGED <<days, end_date, start_date, idx, all_data, df, cumulative_df,
                   calls, png, error>>
    /\ UNCHANGED aloneVars

AloneIdle ==
    /\ fcall = Unset /\ fret = Unset
    /\ pcall = Unset /\ pret = Unset
    /\ gcall = Unset /\ gret = Unset

MainIdle ==
    /\ pc = "idle" /\ days = 0
    /\ end_date = 0 /\ start_date = 0 /\ idx = 0 /\ all_data = <<>>
    /\ df = Unset /\ cumulative_df = Unset /\ calls = <<>> /\ out = <<>>
    /\ png = Unset /\ csv = Unset /\ error = "none"

\* A run of main: any --days, any state of the service; no output file exists yet.
Init ==
    /\ pc = "start"
    /\ days \in DaysChoices
    /\ end_date = 0 /\ start_date = 0 /\ idx = 0 /\ all_data = <<>>
    /\ df = Unset /\ cumulative_df = Unset /\ calls = <<>>
    /\ out = <<"MMM Libraries PyPI Download Tracker", "====">>
    /\ png = Unset /\ csv = Unset /\ error = "none"
    /\ AloneIdle

Next ==
    \/ StartRecent
    \/ FetchRecent
    \/ ReturnRecent
    \/ StartCumulative
    \/ FetchCumulative
    \/ ReturnCumulative
    \/ Render
    \/ Persist

Spec == Init /\ [][Next]_vars

(***************************************************************************)
(* get_daily_downloads on its own: one call with any arguments and any     *)
(* behaviour of the service.                                               *)
(***************************************************************************)
\* The longest frame the service returns to the call.
MaxFetchRows == 2

\* A text no date parser accepts (month 13).
BadDateText == <<2026, 13, 1>>

FetchRowPool ==
    { [category |-> c, date |-> t, downloads |-> n] :
        c \in {"with_mirrors", "without_mirrors"},
        t \in {strftime(Today - 1), strftime(Today), strftime(Today + 1), BadDateText},
        n \in {1, 2} }

SeqsUpTo(S, n) == UNION { [1 .. k -> S] : k \in 0 .. n }

FetchCols ==
    { ServiceCols, <<"date", "downloads">>, <<"category", "downloads">>, <<"category", "date">> }

FetchResponses ==
    { [kind |-> "raise", exc |-> e] : e \in {"ConnectionError", "HTTPStatusError"} }
        \cup { [kind |-> "none"] }
        \cup { [kind |-> "frame", cols |-> c, rows |-> r] :
                  c \in FetchCols, r \in SeqsUpTo(FetchRowPool, MaxFetchRows) }

FetchWindows ==
    { <<strftime(a), strftime(b)>> : a, b \in {Today - 1, Today} }
        \cup { <<BadDateText, strftime(Today)>> }

InitFetch ==
    /\ MainIdle
    /\ fcall \in { Holding(c) : c \in { [package_name |-> "pymc-marketing", start_date |-> w[1], end_date |-> w[2],
                     resp |-> r] : w \in FetchWindows, r \in FetchResponses } }
    /\ fret = Unset
    /\ pcall = Unset /\ pret = Unset /\ gcall = Unset /\ gret = Unset

CallFetch ==
    /\ fret = Unset
    /\ fret' = Holding(get_daily_downloads(fcall[1].package_name, fcall[1].start_date,
                                            fcall[1].end_date, fcall[1].resp))
    /\ UNCHANGED <<fcall, pcall, pret, gcall, gret>>
    /\ UNCHANGED mainVars

NextFetch == CallFetch

SpecFetch == InitFetch /\ [][NextFetch]_vars

(***************************************************************************)
(* create_plots on its own: one call with any two tables.                  *)
(***************************************************************************)
\* The longest full-history table given to the call.
MaxPlotRows == 3

TableCols == <<"date", "downloads", "package", "display_name">>

PlotRowPool ==
    { [date |-> d, downloads |-> n, package |-> MMM_PACKAGES[k].package_name,
       display_name |-> MMM_PACKAGES[k].display_name] :
        d \in {Today - 1, Today}, n \in {-1, 1, 2}, k \in {1, 2} }

PlotRecentTables ==
    { EmptyFrame,
      [cols |-> TableCols,
       rows |-> << [date |-> Today, downloads |-> 3, package |-> MMM_PACKAGES[1].package_name,
                    display_name |-> MMM_PACKAGES[1].display_name] >>] }

InitPlots ==
    /\ MainIdle
    /\ pcall \in { Holding(c) : c \in { [df |-> f, days |-> DEFAULT_DAYS,
                     cumulative_df |-> IF r = <<>> THEN EmptyFrame
                                       ELSE [cols |-> TableCols, rows |-> r]] :
                       f \in PlotRecentTables, r \in SeqsUpTo(PlotRowPool, MaxPlotRows) } }
    /\ pret = Unset
    /\ fcall = Unset /\ fret = Unset /\ gcall = Unset /\ gret = Unset

CallPlots ==
    /\ pret = Unset
    /\ LET r == create_plots(pcall[1].df, pcall[1].days, pcall[1].cumulative_df)
       IN IF r.saved
          THEN \E fig \in r.figs : pret' = Holding([saved |-> TRUE, fig |-> Holding(fig)])
          ELSE pret' = Holding([saved |-> FALSE, fig |-> Unset])
    /\ UNCHANGED <<pcall, fcall, fret, gcall, gret>>
    /\ UNCHANGED mainVars

NextPlots == CallPlots

SpecPlots == InitPlots /\ [][NextPlots]_vars

(***************************************************************************)
(* calculate_cagr on its own.  Python computes the growth rate in floating *)
(* point; the model computes it exactly where floating point does (the     *)
(* quotient is a whole number, 1/periods is a power of 1/2 and the root is *)
(* a whole number) and otherwise says only what kind of value comes back.  *)
(***************************************************************************)
\* The largest periods given to the call.
MaxPeriods == 2

RECURSIVE Power(_, _)
Power(b, n) == IF n = 0 THEN 1 ELSE b * Power(b, n - 1)

IsPowerOfTwo(n) == \E k \in 0 .. n : Power(2, k) = n

\* The whole numbers r with r ** n = q (none or one of them).
WholeRoots(q, n) == {r \in 1 .. q : Power(r, n) = q}

\* Line 96: [exc, type, exact, val].
GrowthFormula(start_value, end_value, periods) ==
    IF start_value = 0 \/ periods = 0
    THEN [exc |-> "ZeroDivisionError", type |-> "none", exact |-> FALSE, val |-> 0]
    ELSE IF periods < 0 /\ end_value = 0
    THEN [exc |-> "ZeroDivisionError", type |-> "none", exact |-> FALSE, val |-> 0]
    ELSE IF (end_value < 0) # (start_value < 0) /\ end_value # 0 /\ periods # 1 /\ periods # -1
    THEN [exc |-> "none", type |-> "complex", exact |-> FALSE, val |-> 0]
    ELSE IF /\ start_value > 0 /\ end_value > 0 /\ periods > 0
            /\ end_value % start_value = 0
            /\ IsPowerOfTwo(periods)
            /\ WholeRoots(end_value \div start_value, periods) # {}
    THEN [exc |-> "none", type |-> "float", exact |-> TRUE,
          val |-> ((CHOOSE r \in WholeRoots(end_value \div start_value, periods) : TRUE) - 1) * 100]
    ELSE [exc |-> "none", type |-> "float", exact |-> FALSE, val |-> 0]

\* A mutant of the guard: periods not checked.
calculate_cagr_periods_unchecked(start_value, end_value, periods) ==
    IF start_value <= 0 \/ end_value <= 0
    THEN [exc |-> "none", type |-> "int", exact |-> TRUE, val |-> 0]
    ELSE GrowthFormula(start_value, end_value, periods)

\* Lines 92-96.
calculate_cagr(start_value, end_value, periods) ==
    IF start_value <= 0 \/ end_value <= 0 \/ periods <= 0
    THEN [exc |-> "none", type |-> "int", exact |-> TRUE, val |-> 0]
    ELSE GrowthFormula(start_value, end_value, periods)

CagrStartValues == {-1, 0, 1, 4, 100}

CagrEndValues == {-1, 0, 1, 4, 16, 400}

InitCagr ==
    /\ MainIdle
    /\ gcall \in { Holding(c) : c \in [start_value : CagrStartValues, end_value : CagrEndValues,
                                        periods : -1 .. MaxPeriods] }
    /\ gret = Unset
    /\ fcall = Unset /\ fret = Unset /\ pcall = Unset /\ pret = Unset

CallCagr ==
    /\ gret = Unset
    /\ gret' = Holding(calculate_cagr(gcall[1].start_value, gcall[1].end_value,
                                       gcall[1].periods))
    /\ UNCHANGED <<gcall, fcall, fret, pcall, pret>>
    /\ UNCHANGED mainVars

NextCagr == CallCagr

SpecCagr == InitCagr /\ [][NextCagr]_vars

(***************************************************************************)
(* The claims.                                                             *)
(***************************************************************************)
NoDataMessage == "No data retrieved. Please check package names and try again."

CallsOf(window) == SelectSeq(calls, LAMBDA c : c.window = window)

TableOf(window) == IF window = "recent" THEN df ELSE cumulative_df

\* The rows a call returned, with the display name of catalog entry k added.
TaggedRows(call, k) ==
    [i \in DOMAIN call.df[1].rows |->
        [date |-> call.df[1].rows[i].date, downloads |-> call.df[1].rows[i].downloads,
         package |-> call.df[1].rows[i].package,
         display_name |-> MMM_PACKAGES[k].display_name]]

BothTablesNonEmpty ==
    /\ IsSet(df) /\ IsSet(cumulative_df)
    /\ Len(df[1].rows) > 0 /\ Len(cumulative_df[1].rows) > 0

SomeTableEmpty ==
    /\ IsSet(df) /\ IsSet(cumulative_df)
    /\ (Len(df[1].rows) = 0 \/ Len(cumulative_df[1].rows) = 0)

\* C1: in every run of main the image and the CSV file are written if and only if
\* both tables are non-empty; when either table is empty neither file is written,
\* the 'no data retrieved' message is printed and main returns normally.
C1_FilesIffBothTablesNonEmpty ==
    /\ (IsSet(png) \/ IsSet(csv)) => BothTablesNonEmpty
    /\ (pc = "done" /\ BothTablesNonEmpty) => (IsSet(png) /\ IsSet(csv))
    /\ SomeTableEmpty =>
          /\ pc = "done" /\ error = "none"
          /\ ~IsSet(png) /\ ~IsSet(csv)
          /\ NoDataMessage \in Range(out)
    /\ BothTablesNonEmpty => NoDataMessage \notin Range(out)

\* A run that ended with only one of the two tables empty.
C1_Witness_OnlyRecentEmpty ==
    /\ pc = "done" /\ IsSet(df) /\ IsSet(cumulative_df)
    /\ Len(df[1].rows) = 0 /\ Len(cumulative_df[1].rows) > 0

\* A run that ended with both files written.
C1_Witness_FilesWritten == pc = "done" /\ IsSet(png) /\ IsSet(csv)

C2_TableIsTheFetchedRows(window) ==
    LET t  == TableOf(window)[1]
        cs == CallsOf(window)
    IN /\ Len(cs) = NPackages
       /\ \A k \in 1 .. NPackages :
            /\ cs[k].package = MMM_PACKAGES[k].package_name
            /\ IsSet(cs[k].df)
            /\ SelectSeq(t.rows, LAMBDA r : r.package = MMM_PACKAGES[k].package_name)
                  = TaggedRows(cs[k], k)
            /\ SelectSeq(t.rows, LAMBDA r : r.display_name = MMM_PACKAGES[k].display_name)
                  = TaggedRows(cs[k], k)
            /\ (cs[k].resp \in {"raise", "none"} \/ Len(cs[k].df[1].rows) = 0) =>
                  \A i \in DOMAIN t.rows : t.rows[i].package # MMM_PACKAGES[k].package_name
       /\ Len(t.rows) = SumSeq([k \in 1 .. NPackages |-> Len(cs[k].df[1].rows)])

\* C2: the table an aggregator returns holds no row of a package whose fetch failed
\* or yielded nothing and exactly the fetched rows of every other package, each with
\* that package's display name; every package is fetched whatever the others did.
C2_FailedPackagesExcludedOthersKept ==
    \A window \in {"recent", "cumulative"} :
        IsSet(TableOf(window)) => C2_TableIsTheFetchedRows(window)

\* The recent table was returned after an earlier package failed and a later one
\* delivered rows.
C2_Witness_FailureThenRows ==
    /\ IsSet(df)
    /\ \E k, j \in 1 .. NPackages :
          /\ k < j /\ Len(CallsOf("recent")) = NPackages
          /\ CallsOf("recent")[k].resp = "raise"
          /\ Len(CallsOf("recent")[j].df[1].rows) > 0

\* C6: whenever the CSV file is written it holds one line per record of the recent
\* table after the header date, downloads, package, display_name, with no index
\* column, and the table's record count is the sum of the records the Fetcher
\* returned for each package in the recent window.
C6_CsvIsTheRecentTable ==
    IsSet(csv) =>
        /\ IsSet(df)
        /\ Len(csv[1]) = 1 + Len(df[1].rows)
        /\ csv[1][1] = <<"date", "downloads", "package", "display_name">>
        /\ \A i \in DOMAIN df[1].rows :
              csv[1][i + 1] = << strftime(df[1].rows[i].date), df[1].rows[i].downloads,
                                 df[1].rows[i].package, df[1].rows[i].display_name >>
        /\ Len(CallsOf("recent")) = NPackages
        /\ Len(df[1].rows) =
              SumSeq([k \in 1 .. NPackages |-> Len(CallsOf("recent")[k].df[1].rows)])

\* The CSV file was written from a table that two packages or more contributed to.
C6_Witness_CsvOfSeveralPackages ==
    /\ IsSet(csv)
    /\ Cardinality({df[1].rows[i].package : i \in DOMAIN df[1].rows}) >= 2
    /\ Len(csv[1]) >= 4

\* C5: the Range Aggregator never raises, whatever days_back is (zero, negative,
\* or so large that today - days_back is no representable date) and whatever the
\* fetches do: both aggregators return a table.
C5_AggregatorNeverRaises == pc # "raised" /\ error = "none"

\* The calls a run makes, in order: the catalog for the recent window, then the
\* catalog for the full history.
ExpectedCalls ==
    [i \in 1 .. 2 * NPackages |->
        IF i <= NPackages
        THEN <<"recent", MMM_PACKAGES[i].package_name>>
        ELSE <<"cumulative", MMM_PACKAGES[i - NPackages].package_name>>]

CallsSoFar == [i \in DOMAIN calls |-> <<calls[i].window, calls[i].package>>]

\* The order of a run, as far as it got: the calls made are the first of
\* ExpectedCalls, the Renderer and the Persister run only after all of them, the
\* Persister only after the Renderer.
RunInOrder ==
    /\ Len(calls) <= 2 * NPackages
    /\ CallsSoFar = SubSeq(ExpectedCalls, 1, Len(calls))
    /\ (pc \in {"render", "persist"} \/ IsSet(png) \/ IsSet(csv)) => Len(calls) = 2 * NPackages
    /\ IsSet(csv) => IsSet(png)
    /\ pc = "persist" => IsSet(png)

\* C9: every run of main fetches each catalog entry once for the recent window, then
\* each once for the full history, unconditionally, so it makes exactly 8 Fetcher
\* calls; the Renderer and the Persister run only after the 8 calls, the Persister
\* only after the Renderer.
C9_EveryRunMakesTheEightCallsInOrder ==
    /\ RunInOrder
    /\ pc \in {"done", "raised"} => CallsSoFar = ExpectedCalls

\* What holds of the order in every run: C9 less the runs that line 59 ends.
C9_RunsPastLine59InOrder ==
    /\ RunInOrder
    /\ pc = "done" => CallsSoFar = ExpectedCalls
    /\ pc = "raised" => calls = <<>>

\* The recent table holds at most days + 1 records of each package and no
\* (package, date) pair twice.
RecentTableWithinWindow ==
    LET rows == df[1].rows
    IN /\ \A k \in 1 .. NPackages :
            Len(SelectSeq(rows, LAMBDA r : r.package = MMM_PACKAGES[k].package_name)) <= days + 1
       /\ \A i, j \in DOMAIN rows :
            (rows[i].package = rows[j].package /\ rows[i].date = rows[j].date) => i = j

ServiceDatesUnique == \A i \in DOMAIN calls : calls[i].window = "recent" => calls[i].unique

\* C10: when the service returns at most one without_mirrors row per date, the
\* recent table holds at most days + 1 records per package for days >= 0 and no
\* (package, date) pair twice; for days < 0 the table is empty and the run ends with
\* the 'no data retrieved' outcome.
C10_WindowBoundsTheRecentTable ==
    /\ (IsSet(df) /\ days >= 0 /\ ServiceDatesUnique) => RecentTableWithinWindow
    /\ (days < 0 /\ IsSet(df)) => Len(df[1].rows) = 0
    /\ (days < 0 /\ pc \in {"done", "raised"}) =>
          /\ pc = "done"
          /\ NoDataMessage \in Range(out)
          /\ ~IsSet(png) /\ ~IsSet(csv)

\* What holds of the window in every run: C10 less the runs that line 59 ends.
C10_RunsPastLine59WithinWindow ==
    /\ (IsSet(df) /\ days >= 0 /\ ServiceDatesUnique) => RecentTableWithinWindow
    /\ (days < 0 /\ IsSet(df)) => Len(df[1].rows) = 0
    /\ (days < 0 /\ pc = "done") =>
          /\ NoDataMessage \in Range(out)
          /\ ~IsSet(png) /\ ~IsSet(csv)

\* The bound is met: a package with days + 1 records in the recent table.
C10_Reached_FullWindow ==
    /\ IsSet(df) /\ days >= 1 /\ ServiceDatesUnique
    /\ \E k \in 1 .. NPackages :
          Len(SelectSeq(df[1].rows, LAMBDA r : r.package = MMM_PACKAGES[k].package_name)) = days + 1

\* Without the assumption the bound is passed: a date twice for one package.
C10_Reached_DuplicateDate ==
    /\ IsSet(df) /\ days >= 0 /\ ~RecentTableWithinWindow

(***************************************************************************)
(* Claims about get_daily_downloads, under SpecFetch.                      *)
(***************************************************************************)
FetchWindowValid ==
    /\ IsDateText(fcall[1].start_date) /\ IsDateText(fcall[1].end_date)
    /\ strptime(fcall[1].start_date) <= strptime(fcall[1].end_date)

\* The service rows the claim selects: category without_mirrors and a date within
\* [start_date, end_date], each with the requested package id.
SelectedServiceRows ==
    LET sel == SelectSeq(fcall[1].resp.rows,
                         LAMBDA r : /\ r.category = "without_mirrors"
                                    /\ IsDateText(r.date)
                                    /\ strptime(fcall[1].start_date) <= strptime(r.date)
                                    /\ strptime(r.date) <= strptime(fcall[1].end_date))
    IN [i \in DOMAIN sel |->
           [date |-> strptime(sel[i].date), downloads |-> sel[i].downloads,
            package |-> fcall[1].package_name]]

HasAllColumns == {"category", "date", "downloads"} \subseteq Range(fcall[1].resp.cols)

WithoutMirrorsDatesParse ==
    \A i \in DOMAIN fcall[1].resp.rows :
        fcall[1].resp.rows[i].category = "without_mirrors" =>
            IsDateText(fcall[1].resp.rows[i].date)

\* C3 as stated: for every service response and every start_date <= end_date the
\* result is exactly the service rows of category without_mirrors dated within
\* [start_date, end_date], with the requested package id.
C3_ResultIsTheSelectedRows ==
    (IsSet(fret) /\ FetchWindowValid /\ fcall[1].resp.kind = "frame" /\ HasAllColumns) =>
        fret[1].df.rows = SelectedServiceRows

\* C3 as amended: the same, for the responses whose without_mirrors rows all carry a
\* date that parses (one that does not makes the whole result empty).
C3_ResultIsTheSelectedRowsWhenDatesParse ==
    (IsSet(fret) /\ FetchWindowValid) =>
        /\ fret[1].raised = "none"
        /\ fcall[1].resp.kind \in {"raise", "none"} => fret[1].df.rows = <<>>
        /\ (fcall[1].resp.kind = "frame" /\ HasAllColumns /\ WithoutMirrorsDatesParse) =>
              fret[1].df.rows = SelectedServiceRows
        /\ (fcall[1].resp.kind = "frame" /\ ~WithoutMirrorsDatesParse) => fret[1].df.rows = <<>>

\* Two without_mirrors rows came back from the service, one dated inside the window
\* and kept, one dated after it and dropped.
C3_Witness_OneKeptOneDropped ==
    /\ IsSet(fret) /\ FetchWindowValid
    /\ fcall[1].resp.kind = "frame" /\ HasAllColumns /\ WithoutMirrorsDatesParse
    /\ Len(fcall[1].resp.rows) = 2
    /\ \A i \in 1 .. 2 : fcall[1].resp.rows[i].category = "without_mirrors"
    /\ fcall[1].resp.rows[1].date = fcall[1].end_date
    /\ strptime(fcall[1].resp.rows[2].date) > strptime(fcall[1].end_date)
    /\ Len(fret[1].df.rows) = 1

\* The call runs into an error at some step: the service call fails, or the frame
\* has rows and lacks a column, holds a without_mirrors date that does not parse,
\* or is to be cut to a start or end date that does not parse.
FetchErrorOccurs ==
    \/ fcall[1].resp.kind = "raise"
    \/ /\ fcall[1].resp.kind = "frame"
       /\ Len(fcall[1].resp.rows) > 0
       /\ \/ ~HasAllColumns
          \/ ~WithoutMirrorsDatesParse
          \/ ~IsDateText(fcall[1].start_date)
          \/ ~IsDateText(fcall[1].end_date)

ErrorDiagnostics ==
    {m \in Range(fret[1].out) : m[1] = "Error fetching data for" /\ m[2] = fcall[1].package_name}

\* C4: get_daily_downloads never propagates an error: when the service returns no
\* data or an error occurs at any step it returns an empty result, and in the error
\* case it prints a diagnostic naming the package and the error.
C4_ErrorsBecomeEmptyResults ==
    IsSet(fret) =>
        /\ fret[1].raised = "none"
        /\ (fcall[1].resp.kind = "none" \/ (fcall[1].resp.kind = "frame" /\ fcall[1].resp.rows = <<>>)) =>
              (IsEmpty(fret[1].df) /\ ErrorDiagnostics = {})
        /\ FetchErrorOccurs =>
              /\ IsEmpty(fret[1].df)
              /\ \E m \in ErrorDiagnostics :
                    /\ m[3] \in {"KeyError", "ValueError", "ConnectionError", "HTTPStatusError"}
                    /\ fcall[1].resp.kind = "raise" => m[3] = fcall[1].resp.exc
        /\ ~FetchErrorOccurs => ErrorDiagnostics = {}

\* A date of a without_mirrors row did not parse: empty result and a diagnostic.
C4_Witness_DateParsingError ==
    /\ IsSet(fret)
    /\ fcall[1].resp.kind = "frame" /\ HasAllColumns /\ ~WithoutMirrorsDatesParse
    /\ IsDateText(fcall[1].start_date)
    /\ IsEmpty(fret[1].df)
    /\ ErrorDiagnostics # {}

(***************************************************************************)
(* The claim about create_plots, under SpecPlots.                          *)
(***************************************************************************)
IndexPermutations(n) == {f \in [1 .. n -> 1 .. n] : \A i, j \in 1 .. n : f[i] = f[j] => i = j}

\* A plotted line is the running sum, in ascending date order, of exactly the rows.
IsRunningSumOf(line, rows) ==
    LET n == Len(rows)
        step(i) == line.y[i] - (IF i = 1 THEN 0 ELSE line.y[i - 1])
    IN /\ Len(line.x) = n /\ Len(line.y) = n
       /\ \A i \in 1 .. n - 1 : line.x[i] <= line.x[i + 1]
       /\ \E f \in IndexPermutations(n) :
             \A i \in 1 .. n : line.x[i] = rows[f[i]].date /\ step(i) = rows[f[i]].downloads
       /\ n >= 1 => line.y[n] = SumSeq([i \in 1 .. n |-> rows[i].downloads])
       /\ (\A i \in 1 .. n : rows[i].downloads >= 0) =>
             \A i \in 1 .. n - 1 : line.y[i] <= line.y[i + 1]

\* C7: for every display name of the full-history table the cumulative series is the
\* running sum of that display name's downloads alone, in ascending date order
\* whatever the row order; it is non-decreasing when no download count is negative,
\* and it ends at the display name's total.
C7_CumulativeSeriesPerDisplayName ==
    (IsSet(pret) /\ pret[1].saved) =>
        LET lines == pret[1].fig[1].ax2.lines
            rows  == pcall[1].cumulative_df.rows
        IN /\ {lines[i].label : i \in DOMAIN lines} = {rows[i].display_name : i \in DOMAIN rows}
           /\ \A i, j \in DOMAIN lines : lines[i].label = lines[j].label => i = j
           /\ \A i \in DOMAIN lines :
                 IsRunningSumOf(lines[i],
                                SelectSeq(rows, LAMBDA r : r.display_name = lines[i].label))

\* The table held the rows of two display names interleaved, those of the first out
\* of date order, none negative.
C7_Witness_InterleavedUnsorted ==
    /\ IsSet(pret) /\ pret[1].saved
    /\ LET rows == pcall[1].cumulative_df.rows
       IN /\ Len(rows) = 3
          /\ rows[1].display_name = rows[3].display_name
          /\ rows[1].display_name # rows[2].display_name
          /\ rows[1].date > rows[3].date
          /\ \A i \in 1 .. 3 : rows[i].downloads > 0
    /\ Len(pret[1].fig[1].ax2.lines) = 2

(***************************************************************************)
(* The claim about calculate_cagr, under SpecCagr.                         *)
(***************************************************************************)
\* C8: calculate_cagr(s, e, p) returns exactly 0, without raising, whenever s <= 0 or
\* e <= 0 or p <= 0; otherwise it returns ((e/s)**(1/p) - 1) * 100, for instance
\* 100.0 for (100, 400, 2).
C8_CagrZeroOnDegenerateInput ==
    IsSet(gret) =>
        LET sv == gcall[1].start_value
            ev == gcall[1].end_value
            n  == gcall[1].periods
            r  == gret[1]
        IN /\ r.exc = "none"
           /\ (sv <= 0 \/ ev <= 0 \/ n <= 0) => (r.type = "int" /\ r.val = 0)
           /\ (sv > 0 /\ ev > 0 /\ n > 0) =>
                 /\ r.type = "float"
                 /\ r.exact => Power(r.val + 100, n) * sv = ev * Power(100, n)
           /\ (sv = 100 /\ ev = 400 /\ n = 2) => (r.exact /\ r.val = 100)

\* The claim's example has been computed.
C8_Witness_Example ==
    /\ IsSet(gret)
    /\ gcall[1] = [start_value |-> 100, end_value |-> 400, periods |-> 2]
    /\ gret[1].val = 100

====
